---- MODULE Spec2Model ----
(***************************************************************************)
(* Model of src/Main.py: sector angles from KIND lists, junction           *)
(* classification, link generation, and the GLOBAL / SINGLEBODY grouping   *)
(* of regions into bodies.                                                 *)
(*                                                                         *)
(* Representation of Python values:                                        *)
(*   - an int is the same non-negative integer;                            *)
(*   - a str vertex id "vK" is the negative integer -K, so that            *)
(*     isinstance(item, int) is  item >= 0 ;                               *)
(*   - an angle in degrees is an integer number of millidegrees, the       *)
(*     arctangents of the grid directions used being rounded to 0.001;     *)
(*   - a list is a sequence (1-based), a set is a set, the insertion       *)
(*     ordered dict `vertices` is a sequence of records with field id.     *)
(***************************************************************************)
EXTENDS Integers, Sequences, FiniteSets, TLC

VARIABLES
    vertices,         \* the loaded scene: <<[id, coords, kind_list], ...>>
    background,       \* the background region id
    pc,               \* position in main()
    angles_map,       \* vertex id -> list of sector angles
    classifications,  \* vertex id -> "L" | "T" | "FORK" | "ARROW" | "MULTI"
    links,            \* list of <<r1, r2>>
    link_counts,      \* run_GLOBAL: [keys |-> list of sorted pairs, n |-> counts]
    link_map,         \* run_SINGLEBODY: region -> set of adjacent regions
    nuclei,           \* list of sets of regions
    changed,          \* the loops' flag
    idx,              \* position of the running for loop in its snapshot
    bodies            \* extract_bodies' result

vars == <<vertices, background, pc, angles_map, classifications, links,
          link_counts, link_map, nuclei, changed, idx, bodies>>

(***************************************************************************)
(* Bounds of the model.                                                    *)
(***************************************************************************)
MaxRegion == 3

Regions == 0 .. MaxRegion

(***************************************************************************)
(* Small helpers on sequences and sets.                                    *)
(***************************************************************************)
SeqToSet(s) == { s[i] : i \in 1 .. Len(s) }

Min(S) == CHOOSE x \in S : \A y \in S : x <= y

RECURSIVE SortedSeq(_)
\* Python sorted() on a set of ints.
SortedSeq(S) ==
    IF S = {} THEN << >> ELSE <<Min(S)>> \o SortedSeq(S \ {Min(S)})

Abs(x) == IF x < 0 THEN -x ELSE x

Deg(d) == d * 1000

\* Python round() of a number of millidegrees to whole degrees.
Round(m) ==
    LET q == m \div 1000
        r == m % 1000
    IN  IF r < 500 THEN q
        ELSE IF r > 500 THEN q + 1
        ELSE IF q % 2 = 0 THEN q ELSE q + 1

(***************************************************************************)
(* Geometry helpers.                                                       *)
(***************************************************************************)
\* degrees(atan(p / q)) for 0 < p, 0 < q, in millidegrees.
AtanMilliDeg(p, q) ==
    CASE p = q         -> 45000
      [] 2 * p = q     -> 26565
      [] p = 2 * q     -> 63435
      [] 3 * p = q     -> 18435
      [] p = 3 * q     -> 71565
      [] 3 * p = 2 * q -> 33690
      [] 2 * p = 3 * q -> 56310

\* math.degrees(math.atan2(y, x)), in millidegrees.
Atan2MilliDeg(y, x) ==
    IF y = 0 THEN (IF x >= 0 THEN 0 ELSE Deg(180))
    ELSE IF x = 0 THEN (IF y > 0 THEN Deg(90) ELSE -Deg(90))
    ELSE LET t == AtanMilliDeg(Abs(y), Abs(x))
         IN  IF x > 0 THEN (IF y > 0 THEN t ELSE -t)
             ELSE (IF y > 0 THEN Deg(180) - t ELSE t - Deg(180))

estimate_for_T(angle) == Deg(175) <= angle /\ angle <= Deg(185)

angle_between(p1, p2, p3) ==
    LET deg1 == (Deg(360) + Atan2MilliDeg(p1[1] - p2[1], p1[2] - p2[2])) % Deg(360)
        deg2 == (Deg(360) + Atan2MilliDeg(p3[1] - p2[1], p3[2] - p2[2])) % Deg(360)
    IN  IF deg1 <= deg2 THEN deg2 - deg1 ELSE Deg(360) - (deg1 - deg2)

\* vertices[v_id]; HasVertex is false where Python raises KeyError.
HasVertex(vs, v_id) == \E i \in 1 .. Len(vs) : vs[i].id = v_id

Vertex(vs, v_id) == vs[CHOOSE i \in 1 .. Len(vs) : vs[i].id = v_id]

\* The entries kl[i] for i in range(first, len(kl) - 1, 2): first = 0 gives the
\* adjacent vertices, first = 1 the regions.
EveryOther(kl, first) ==
    LET last == Len(kl) - 2
        cnt  == IF last < first THEN 0 ELSE (last - first) \div 2 + 1
    IN  [j \in 1 .. cnt |-> kl[first + 2 * (j - 1) + 1]]

\* One iteration of get_sector_angles' loop: [ok, angles]; ok is FALSE where the
\* code raises (KeyError, IndexError or the assertion).
SectorAngles(vs, v) ==
    LET kl   == v.kind_list
        adjv == EveryOther(kl, 0)
        failed == [ok |-> FALSE, angles |-> << >>]
    IN  IF \E j \in 1 .. Len(adjv) : ~HasVertex(vs, adjv[j]) THEN failed
        ELSE
        LET adj_coors == <<v.coords>> \o [j \in 1 .. Len(adjv) |-> Vertex(vs, adjv[j]).coords]
        IN  IF Len(adj_coors) = 3 THEN [ok |-> TRUE, angles |-> << >>]
            ELSE IF Len(adj_coors) < 4 THEN failed
            ELSE
            LET a1 == angle_between(adj_coors[2], adj_coors[1], adj_coors[3])
                a2 == angle_between(adj_coors[3], adj_coors[1], adj_coors[4])
                a3 == angle_between(adj_coors[4], adj_coors[1], adj_coors[2])
                b1 == angle_between(adj_coors[3], adj_coors[1], adj_coors[2])
                b2 == angle_between(adj_coors[4], adj_coors[1], adj_coors[3])
                b3 == angle_between(adj_coors[2], adj_coors[1], adj_coors[4])
            IN  IF Round(a1 + a2 + a3) = 360
                THEN [ok |-> TRUE, angles |-> <<a1, a2, a3>>]
                ELSE IF Round(b1 + b2 + b3) = 360
                THEN [ok |-> TRUE, angles |-> <<b1, b2, b3>>]
                ELSE failed

VertexIds(vs) == { vs[i].id : i \in 1 .. Len(vs) }

get_sector_angles_ok(vs) == \A i \in 1 .. Len(vs) : SectorAngles(vs, vs[i]).ok

get_sector_angles(vs) ==
    [v_id \in VertexIds(vs) |-> SectorAngles(vs, Vertex(vs, v_id)).angles]

(***************************************************************************)
(* Classification.                                                         *)
(***************************************************************************)
classify_vertex(v_id, am) ==
    LET a == IF v_id \in DOMAIN am THEN am[v_id] ELSE << >>
    IN  IF Len(a) = 0 THEN "L"
        ELSE IF \E i \in 1 .. Len(a) : estimate_for_T(a[i]) THEN "T"
        ELSE IF \A i \in 1 .. Len(a) : a[i] < Deg(180) THEN "FORK"
        ELSE IF \E i \in 1 .. Len(a) : a[i] > Deg(180) THEN "ARROW"
        ELSE "MULTI"

(***************************************************************************)
(* Link generation.                                                        *)
(***************************************************************************)
add_link(ls, r1, r2) == IF r1 # r2 THEN Append(ls, <<r1, r2>>) ELSE ls

\* The body of generate_links' loop for one vertex: the links list after it.
VertexLinks(ls, v, cls, am) ==
    LET vtype   == cls[v.id]
        regions == EveryOther(v.kind_list, 1)
        a       == IF v.id \in DOMAIN am THEN am[v.id] ELSE << >>
    IN  IF Len(regions) < 2 THEN ls
        ELSE IF vtype = "FORK" /\ Len(regions) = 3
        THEN add_link(add_link(add_link(ls, regions[1], regions[2]),
                               regions[2], regions[3]),
                      regions[1], regions[3])
        ELSE IF vtype = "ARROW"
        THEN IF Len(a) = 3 /\ Len(regions) = 3
             THEN IF a[1] > Deg(180) THEN add_link(ls, regions[2], regions[3])
                  ELSE IF a[2] > Deg(180) THEN add_link(ls, regions[1], regions[3])
                  ELSE add_link(ls, regions[1], regions[2])
             ELSE IF Len(regions) >= 2 THEN add_link(ls, regions[1], regions[2])
             ELSE ls
        ELSE ls

RECURSIVE LinksUpTo(_, _, _, _)
LinksUpTo(vs, cls, am, k) ==
    IF k = 0 THEN << >>
    ELSE VertexLinks(LinksUpTo(vs, cls, am, k - 1), vs[k], cls, am)

generate_links(vs, cls, am) == LinksUpTo(vs, cls, am, Len(vs))

(***************************************************************************)
(* Grouping: the nuclei and the merge primitive.                           *)
(***************************************************************************)
collect_all_regions(vs) ==
    { item \in UNION { SeqToSet(vs[i].kind_list) : i \in 1 .. Len(vs) } : item >= 0 }

initialize_nuclei_all_regions(vs, bg) ==
    LET sorted == SortedSeq(collect_all_regions(vs) \ {bg})
    IN  [i \in 1 .. Len(sorted) |-> {sorted[i]}]

\* list.remove(x): the list without its first element equal to x.
ListRemove(s, x) ==
    LET k == Min({ i \in 1 .. Len(s) : s[i] = x })
    IN  [i \in 1 .. Len(s) - 1 |-> IF i < k THEN s[i] ELSE s[i + 1]]

\* merge_nuclei without line 228: the nucleus of b stays in the list.
merge_nuclei_keep(nuc, a, b) ==
    LET hits == { p \in (1 .. Len(nuc)) \X (1 .. Len(nuc)) :
                    a \in nuc[p[1]] /\ b \in nuc[p[2]] /\ p[1] # p[2] }
    IN  IF hits = {} THEN [nuclei |-> nuc, merged |-> FALSE]
        ELSE LET i == Min({ p[1] : p \in hits })
                 j == Min({ p[2] : p \in { q \in hits : q[1] = i } })
             IN  [nuclei |-> [nuc EXCEPT ![i] = nuc[i] \cup nuc[j]], merged |-> TRUE]

\* merge_nuclei with the inner loop starting after n1: the nucleus of b is
\* found only when it comes later in the list than the nucleus of a.
merge_nuclei_forward(nuc, a, b) ==
    LET hits == { p \in (1 .. Len(nuc)) \X (1 .. Len(nuc)) :
                    a \in nuc[p[1]] /\ b \in nuc[p[2]] /\ p[1] < p[2] }
    IN  IF hits = {} THEN [nuclei |-> nuc, merged |-> FALSE]
        ELSE LET i == Min({ p[1] : p \in hits })
                 j == Min({ p[2] : p \in { q \in hits : q[1] = i } })
                 updated == [nuc EXCEPT ![i] = nuc[i] \cup nuc[j]]
             IN  [nuclei |-> ListRemove(updated, nuc[j]), merged |-> TRUE]

\* merge_nuclei: [nuclei |-> the list afterwards, merged |-> the returned flag].
merge_nuclei(nuc, a, b) ==
    LET hits == { p \in (1 .. Len(nuc)) \X (1 .. Len(nuc)) :
                    a \in nuc[p[1]] /\ b \in nuc[p[2]] /\ p[1] # p[2] }
    IN  IF hits = {} THEN [nuclei |-> nuc, merged |-> FALSE]
        ELSE LET i == Min({ p[1] : p \in hits })
                 j == Min({ p[2] : p \in { q \in hits : q[1] = i } })
                 updated == [nuc EXCEPT ![i] = nuc[i] \cup nuc[j]]
             IN  [nuclei |-> ListRemove(updated, nuc[j]), merged |-> TRUE]

(***************************************************************************)
(* run_GLOBAL.                                                             *)
(***************************************************************************)
StrongThreshold == 2

SortedPair(a, b) == IF a <= b THEN <<a, b>> ELSE <<b, a>>

RECURSIVE CountLinks(_, _, _)
\* link_counts after the first k links: keys in insertion order, n the counts.
CountLinks(ls, bg, k) ==
    IF k = 0 THEN [keys |-> << >>, n |-> << >>]
    ELSE LET lc  == CountLinks(ls, bg, k - 1)
             a   == ls[k][1]
             b   == ls[k][2]
             key == SortedPair(a, b)
         IN  IF bg = a \/ bg = b THEN lc
             ELSE IF key \in DOMAIN lc.n
             THEN [lc EXCEPT !.n[key] = @ + 1]
             ELSE [keys |-> Append(lc.keys, key),
                   n    |-> [q \in DOMAIN lc.n \cup {key} |->
                               IF q = key THEN 1 ELSE lc.n[q]]]

\* The loop body with the test n >= 2 of line 254 left out.
GlobalIterAnyCount(st, lc, i) ==
    LET key == lc.keys[i]
        m   == merge_nuclei(st.nuclei, key[1], key[2])
    IN  IF m.merged
        THEN [nuclei |-> m.nuclei, changed |-> TRUE]
        ELSE st

\* The body of the for loop of run_GLOBAL for the i-th counted pair.
GlobalIter(st, lc, i) ==
    LET key == lc.keys[i]
        m   == merge_nuclei(st.nuclei, key[1], key[2])
    IN  IF lc.n[key] >= StrongThreshold /\ m.merged
        THEN [nuclei |-> m.nuclei, changed |-> TRUE]
        ELSE st

RECURSIVE GlobalPass(_, _, _)
\* One full for loop of run_GLOBAL, from the i-th pair on.
GlobalPass(st, lc, i) ==
    IF i > Len(lc.keys) THEN st ELSE GlobalPass(GlobalIter(st, lc, i), lc, i + 1)

RECURSIVE GlobalLoop(_, _)
\* The while loop of run_GLOBAL.
GlobalLoop(nuc, lc) ==
    LET st == GlobalPass([nuclei |-> nuc, changed |-> FALSE], lc, 1)
    IN  IF st.changed THEN GlobalLoop(st.nuclei, lc) ELSE st.nuclei

(***************************************************************************)
(* run_SINGLEBODY.                                                         *)
(***************************************************************************)
RECURSIVE BuildLinkMap(_, _, _)
BuildLinkMap(ls, bg, k) ==
    IF k = 0 THEN << >>
    ELSE LET lm == BuildLinkMap(ls, bg, k - 1)
             a  == ls[k][1]
             b  == ls[k][2]
             get(r) == IF r \in DOMAIN lm THEN lm[r] ELSE {}
         IN  IF bg = a \/ bg = b THEN lm
             ELSE [r \in DOMAIN lm \cup {a, b} |->
                     get(r) \cup (IF r = a THEN {b} ELSE {})
                            \cup (IF r = b THEN {a} ELSE {})]

\* link_map[region] of the defaultdict(set).
LinkMapGet(lm, region) == IF region \in DOMAIN lm THEN lm[region] ELSE {}

\* The test with "at least one" for "exactly one" adjacent region.
SingleCandidateLoose(n, lm) ==
    /\ Cardinality(n) = 1
    /\ Cardinality(LinkMapGet(lm, CHOOSE r \in n : TRUE)) >= 1

\* The test of lines 277-280: the nucleus is a singleton whose region has
\* exactly one adjacent region.
SingleCandidate(n, lm) ==
    /\ Cardinality(n) = 1
    /\ Cardinality(LinkMapGet(lm, CHOOSE r \in n : TRUE)) = 1

\* The body of the for loop of run_SINGLEBODY for the nucleus n.
SingleIter(nuc, n, lm) ==
    IF SingleCandidate(n, lm)
    THEN LET region == CHOOSE r \in n : TRUE
             other  == CHOOSE r \in LinkMapGet(lm, region) : TRUE
         IN  merge_nuclei(nuc, region, other)
    ELSE [nuclei |-> nuc, merged |-> FALSE]

RECURSIVE SinglePass(_, _, _)
\* The for loop of run_SINGLEBODY from the i-th nucleus on, up to its break.
SinglePass(nuc, lm, i) ==
    IF i > Len(nuc) THEN [nuclei |-> nuc, merged |-> FALSE]
    ELSE LET m == SingleIter(nuc, nuc[i], lm)
         IN  IF m.merged THEN m ELSE SinglePass(nuc, lm, i + 1)

RECURSIVE SingleLoop(_, _)
\* The while loop of run_SINGLEBODY.
SingleLoop(nuc, lm) ==
    LET m == SinglePass(nuc, lm, 1)
    IN  IF m.merged THEN SingleLoop(m.nuclei, lm) ELSE m.nuclei

(***************************************************************************)
(* Output.                                                                 *)
(***************************************************************************)
extract_bodies(nuc) == [i \in 1 .. Len(nuc) |-> SortedSeq(nuc[i])]

(***************************************************************************)
(* The scenes load_scene hands to main(): a drawing (coordinates and, for   *)
(* each vertex, its neighbours and the faces between them, in KIND-list     *)
(* order), a labelling of the drawing's faces by region ids, and the type   *)
(* of the vertex ids (int or str).                                          *)
(***************************************************************************)
\* A tetrahedron seen from above: centre 1, rim 2, 3, 4; faces 1-3, outside 4.
WheelNbrs  == << <<2, 3, 4>>, <<3, 1, 4>>, <<4, 1, 2>>, <<2, 1, 3>> >>
WheelFaces == << <<1, 2, 3>>, <<1, 3, 4>>, <<2, 1, 4>>, <<3, 2, 4>> >>

Wheel(centre) ==
    [coords |-> << centre, <<1, 2>>, <<2, 0>>, <<0, 0>> >>,
     nbrs   |-> WheelNbrs, faces |-> WheelFaces, nfaces |-> 4]

\* A square pyramid seen from above: centre 1 (four neighbours), rim 2..5;
\* faces 1-4, outside 5.
Pyramid(centre) ==
    [coords |-> << centre, <<0, 2>>, <<2, 2>>, <<2, 0>>, <<0, 0>> >>,
     nbrs   |-> << <<3, 4, 5, 2>>, <<3, 1, 5>>, <<4, 1, 2>>, <<5, 1, 3>>, <<2, 1, 4>> >>,
     faces  |-> << <<1, 2, 3, 4>>, <<4, 3, 5>>, <<1, 4, 5>>, <<2, 1, 5>>, <<3, 2, 5>> >>,
     nfaces |-> 5]

\* A cube: centre 1 (FORK), corners 2, 4, 6 (ARROW), corners 3, 5, 7 (L);
\* faces 1-3, outside 4.
Cube ==
    [coords |-> << <<2, 2>>, <<4, 3>>, <<4, 1>>, <<2, 0>>, <<0, 1>>, <<0, 3>>, <<2, 4>> >>,
     nbrs   |-> << <<2, 4, 6>>, <<3, 1, 7>>, <<4, 2>>, <<5, 1, 3>>, <<6, 4>>,
                   <<7, 1, 5>>, <<2, 6>> >>,
     faces  |-> << <<1, 2, 3>>, <<1, 3, 4>>, <<1, 4>>, <<2, 1, 4>>, <<2, 4>>,
                   <<3, 2, 4>>, <<3, 4>> >>,
     nfaces |-> 4]

\* A triangle: three L vertices; face 1, outside 2.
Triangle ==
    [coords |-> << <<1, 2>>, <<2, 0>>, <<0, 0>> >>,
     nbrs   |-> << <<2, 3>>, <<3, 1>>, <<1, 2>> >>,
     faces  |-> << <<1, 2>>, <<1, 2>>, <<1, 2>> >>,
     nfaces |-> 2]

\* A malformed drawing: the three neighbours of vertex 1 lie in one direction.
Collinear ==
    [coords |-> << <<0, 0>>, <<1, 1>>, <<2, 2>>, <<3, 3>> >>,
     nbrs   |-> << <<2, 3, 4>>, <<1, 3>>, <<2, 4>>, <<3, 1>> >>,
     faces  |-> << <<1, 1, 2>>, <<1, 2>>, <<1, 2>>, <<1, 2>> >>,
     nfaces |-> 2]

\* A corrupt drawing: vertex 3 names a vertex 4 that the table does not hold.
Dangling ==
    [coords |-> << <<1, 2>>, <<2, 0>>, <<0, 0>> >>,
     nbrs   |-> << <<2, 3>>, <<3, 1>>, <<1, 4>> >>,
     faces  |-> << <<1, 2>>, <<1, 2>>, <<1, 2>> >>,
     nfaces |-> 2]

Drawings ==
    { Wheel(<<1, 1>>), Wheel(<<1, 0>>), Wheel(<<1, -1>>),
      Pyramid(<<1, 1>>), Pyramid(<<3, 1>>), Pyramid(<<1, 3>>),
      Cube, Triangle, Collinear, Dangling }

\* The id of the k-th vertex: an int above every region id, or a str.
VertexId(k, intIds) == IF intIds THEN MaxRegion + k ELSE -k

KindList(nb, fc, lab, intIds) ==
    [i \in 1 .. 2 * Len(nb) + 1 |->
        IF i = 2 * Len(nb) + 1 THEN VertexId(nb[1], intIds)
        ELSE IF i % 2 = 1 THEN VertexId(nb[(i + 1) \div 2], intIds)
        ELSE lab[fc[i \div 2]]]

Scene(d, lab, intIds) ==
    [k \in 1 .. Len(d.coords) |->
        [id        |-> VertexId(k, intIds),
         coords    |-> d.coords[k],
         kind_list |-> KindList(d.nbrs[k], d.faces[k], lab, intIds)]]

Scenes ==
    UNION { { Scene(d, lab, intIds) :
                lab \in [1 .. d.nfaces -> Regions], intIds \in BOOLEAN } :
            d \in Drawings }

(***************************************************************************)
(* main(): the state after load_scene, and one action per step.            *)
(***************************************************************************)
None == << >>

Init ==
    /\ vertices \in Scenes
    /\ background = 0
    /\ pc = "get_sector_angles"
    /\ angles_map = None
    /\ classifications = None
    /\ links = << >>
    /\ link_counts = [keys |-> << >>, n |-> << >>]
    /\ link_map = None
    /\ nuclei = << >>
    /\ changed = FALSE
    /\ idx = 0
    /\ bodies = << >>

\* Line 333: the angles of every vertex.
GetSectorAngles ==
    /\ pc = "get_sector_angles"
    /\ get_sector_angles_ok(vertices)
    /\ angles_map' = get_sector_angles(vertices)
    /\ pc' = "classify"
    /\ UNCHANGED <<vertices, background, classifications, links, link_counts,
                   link_map, nuclei, changed, idx, bodies>>

\* Lines 75, 84-86, 94: a KeyError, an IndexError or the assertion ends the run.
GetSectorAnglesFails ==
    /\ pc = "get_sector_angles"
    /\ ~get_sector_angles_ok(vertices)
    /\ pc' = "failed"
    /\ UNCHANGED <<vertices, background, angles_map, classifications, links,
                   link_counts, link_map, nuclei, changed, idx, bodies>>

\* Line 334.
Classify ==
    /\ pc = "classify"
    /\ classifications' =
          [v_id \in VertexIds(vertices) |-> classify_vertex(v_id, angles_map)]
    /\ pc' = "generate_links"
    /\ UNCHANGED <<vertices, background, angles_map, links, link_counts,
                   link_map, nuclei, changed, idx, bodies>>

\* Line 341.
GenerateLinks ==
    /\ pc = "generate_links"
    /\ links' = generate_links(vertices, classifications, angles_map)
    /\ pc' = "run_GLOBAL"
    /\ UNCHANGED <<vertices, background, angles_map, classifications,
                   link_counts, link_map, nuclei, changed, idx, bodies>>

\* Lines 241-252: the counts, the singleton nuclei, and the entry of the loop.
GlobalStart ==
    /\ pc = "run_GLOBAL"
    /\ link_counts' = CountLinks(links, background, Len(links))
    /\ nuclei' = initialize_nuclei_all_regions(vertices, background)
    /\ changed' = FALSE
    /\ idx' = 1
    /\ pc' = "GLOBAL_loop"
    /\ UNCHANGED <<vertices, background, angles_map, classifications, links,
                   link_map, bodies>>

\* Lines 253-256: one iteration of the for loop.
GlobalScan ==
    /\ pc = "GLOBAL_loop"
    /\ idx <= Len(link_counts.keys)
    /\ LET st == GlobalIter([nuclei |-> nuclei, changed |-> changed],
                            link_counts, idx)
       IN  /\ nuclei' = st.nuclei
           /\ changed' = st.changed
    /\ idx' = idx + 1
    /\ UNCHANGED <<vertices, background, pc, angles_map, classifications,
                   links, link_counts, link_map, bodies>>

\* Lines 251-252: the pass is over and merged something: scan again.
GlobalAgain ==
    /\ pc = "GLOBAL_loop"
    /\ idx > Len(link_counts.keys)
    /\ changed
    /\ changed' = FALSE
    /\ idx' = 1
    /\ UNCHANGED <<vertices, background, pc, angles_map, classifications,
                   links, link_counts, link_map, nuclei, bodies>>

\* Lines 251, 257: a pass without a merge: run_GLOBAL returns.
GlobalReturn ==
    /\ pc = "GLOBAL_loop"
    /\ idx > Len(link_counts.keys)
    /\ ~changed
    /\ pc' = "run_SINGLEBODY"
    /\ UNCHANGED <<vertices, background, angles_map, classifications, links,
                   link_counts, link_map, nuclei, changed, idx, bodies>>

\* Lines 267-275: the adjacency map and the entry of the loop.
SingleStart ==
    /\ pc = "run_SINGLEBODY"
    /\ link_map' = BuildLinkMap(links, background, Len(links))
    /\ changed' = FALSE
    /\ idx' = 1
    /\ pc' = "SINGLEBODY_loop"
    /\ UNCHANGED <<vertices, background, angles_map, classifications, links,
                   link_counts, nuclei, bodies>>

\* The iteration without line 284 (changed = True): the break after the first
\* merge then ends the while loop too.
SingleScanNoRestart ==
    /\ pc = "SINGLEBODY_loop"
    /\ idx <= Len(nuclei)
    /\ LET n == nuclei[idx]
           m == SingleIter(nuclei, n, link_map)
           region == CHOOSE r \in n : TRUE
       IN  /\ nuclei' = m.nuclei
           /\ changed' = FALSE
           /\ idx' = idx + 1
           /\ pc' = IF m.merged THEN "extract_bodies" ELSE pc
           /\ link_map' = IF Cardinality(n) = 1 /\ region \notin DOMAIN link_map
                          THEN [r \in DOMAIN link_map \cup {region} |->
                                  LinkMapGet(link_map, r)]
                          ELSE link_map
    /\ UNCHANGED <<vertices, background, angles_map, classifications,
                   links, link_counts, bodies>>

\* Lines 276-285: one iteration of the for loop; a merge breaks out of it and
\* the while loop starts the scan again.  Reading link_map[region] adds the
\* key to the defaultdict.
SingleScan ==
    /\ pc = "SINGLEBODY_loop"
    /\ idx <= Len(nuclei)
    /\ LET n == nuclei[idx]
           m == SingleIter(nuclei, n, link_map)
           region == CHOOSE r \in n : TRUE
       IN  /\ nuclei' = m.nuclei
           /\ changed' = FALSE
           /\ idx' = IF m.merged THEN 1 ELSE idx + 1
           /\ link_map' = IF Cardinality(n) = 1 /\ region \notin DOMAIN link_map
                          THEN [r \in DOMAIN link_map \cup {region} |->
                                  LinkMapGet(link_map, r)]
                          ELSE link_map
    /\ UNCHANGED <<vertices, background, pc, angles_map, classifications,
                   links, link_counts, bodies>>

\* Lines 274, 286: a scan without a merge: run_SINGLEBODY returns.
SingleReturn ==
    /\ pc = "SINGLEBODY_loop"
    /\ idx > Len(nuclei)
    /\ pc' = "extract_bodies"
    /\ UNCHANGED <<vertices, background, angles_map, classifications, links,
                   link_counts, link_map, nuclei, changed, idx, bodies>>

\* Line 349.
ExtractBodies ==
    /\ pc = "extract_bodies"
    /\ bodies' = extract_bodies(nuclei)
    /\ pc' = "done"
    /\ UNCHANGED <<vertices, background, angles_map, classifications, links,
                   link_counts, link_map, nuclei, changed, idx>>

Next ==
    \/ GetSectorAngles
    \/ GetSectorAnglesFails
    \/ Classify
    \/ GenerateLinks
    \/ GlobalStart
    \/ GlobalScan
    \/ GlobalAgain
    \/ GlobalReturn
    \/ SingleStart
    \/ SingleScan
    \/ SingleReturn
    \/ ExtractBodies

Spec == Init /\ [][Next]_vars

(***************************************************************************)
(* The same program with the scan orders left open: GLOBAL may come to the *)
(* counted pairs, and SINGLEBODY to the nuclei, in any order, so the next  *)
(* merge is any merge that some iteration of the for loop would make.      *)
(***************************************************************************)
\* Lines 253-256 for an arbitrary pair that merges.
AnyGlobalMerge ==
    /\ pc = "GLOBAL_loop"
    /\ \E i \in 1 .. Len(link_counts.keys) :
          LET st == GlobalIter([nuclei |-> nuclei, changed |-> FALSE], link_counts, i)
          IN  /\ st.changed
              /\ nuclei' = st.nuclei
    /\ UNCHANGED <<vertices, background, pc, angles_map, classifications,
                   links, link_counts, link_map, changed, idx, bodies>>

\* Lines 251, 257: no pair merges any more.
AnyGlobalReturn ==
    /\ pc = "GLOBAL_loop"
    /\ \A i \in 1 .. Len(link_counts.keys) :
          ~GlobalIter([nuclei |-> nuclei, changed |-> FALSE], link_counts, i).changed
    /\ pc' = "run_SINGLEBODY"
    /\ UNCHANGED <<vertices, background, angles_map, classifications, links,
                   link_counts, link_map, nuclei, changed, idx, bodies>>

\* Lines 276-285 for an arbitrary nucleus that merges.
AnySingleMerge ==
    /\ pc = "SINGLEBODY_loop"
    /\ \E i \in 1 .. Len(nuclei) :
          LET m == SingleIter(nuclei, nuclei[i], link_map)
          IN  /\ m.merged
              /\ nuclei' = m.nuclei
    /\ UNCHANGED <<vertices, background, pc, angles_map, classifications,
                   links, link_counts, link_map, changed, idx, bodies>>

\* Lines 274, 286: no nucleus merges any more.
AnySingleReturn ==
    /\ pc = "SINGLEBODY_loop"
    /\ \A i \in 1 .. Len(nuclei) : ~SingleIter(nuclei, nuclei[i], link_map).merged
    /\ pc' = "extract_bodies"
    /\ UNCHANGED <<vertices, background, angles_map, classifications, links,
                   link_counts, link_map, nuclei, changed, idx, bodies>>

NextAnyOrder ==
    \/ GetSectorAngles
    \/ GetSectorAnglesFails
    \/ Classify
    \/ GenerateLinks
    \/ GlobalStart
    \/ AnyGlobalMerge
    \/ AnyGlobalReturn
    \/ SingleStart
    \/ AnySingleMerge
    \/ AnySingleReturn
    \/ ExtractBodies

SpecAnyOrder == Init /\ [][NextAnyOrder]_vars

(***************************************************************************)
(* Notions the properties below are stated with.                           *)
(***************************************************************************)
\* The region ids of the scene: the entries at the region places of the KIND lists.
RegionIds == UNION { SeqToSet(EveryOther(vertices[i].kind_list, 1)) : i \in 1 .. Len(vertices) }

NonBgRegions == RegionIds \ {background}

\* The position is inside or after the merging loops: nuclei holds the partition.
Merging == pc \in {"GLOBAL_loop", "run_SINGLEBODY", "SINGLEBODY_loop", "extract_bodies", "done"}

\* Each element of S lies in exactly one entry of the list nuc, and the entries
\* hold nothing else.
ExactPartition(nuc, S) ==
    /\ \A x \in S : Cardinality({ i \in 1 .. Len(nuc) : x \in nuc[i] }) = 1
    /\ \A i \in 1 .. Len(nuc) : nuc[i] # {} /\ nuc[i] \subseteq S

\* How many times the unordered pair {r, s} occurs in the list of links.
EmitCount(r, s) ==
    Cardinality({ k \in 1 .. Len(links) : links[k] = <<r, s>> \/ links[k] = <<s, r>> })

RECURSIVE Grow(_, _)
\* The elements joined to those of S by a chain of the pairs in E.
Grow(S, E) ==
    LET T == S \cup { e[2] : e \in { f \in E : f[1] \in S } }
               \cup { e[1] : e \in { f \in E : f[2] \in S } }
    IN  IF T = S THEN S ELSE Grow(T, E)

Component(x, E) == Grow({x}, E)

\* The entries of the list nuc that hold x.
NucleiOf(nuc, x) == { nuc[i] : i \in { j \in 1 .. Len(nuc) : x \in nuc[j] } }

(***************************************************************************)
(* C1.  In every run without a fatal error the nuclei after every merge    *)
(* step, and the bodies at the end, are an exact partition of the distinct *)
(* non-background region ids of the KIND lists: each region in exactly one *)
(* of them, and nothing else (no vertex id, no background id) in any.      *)
(* The code fails it when the vertex ids are ints.                         *)
(***************************************************************************)
C1_BodiesPartitionRegions ==
    /\ Merging => ExactPartition(nuclei, NonBgRegions)
    /\ pc = "done" =>
          ExactPartition([i \in 1 .. Len(bodies) |-> SeqToSet(bodies[i])], NonBgRegions)

(***************************************************************************)
(* C2.  No link returned by generate_links has the background region as    *)
(* one of its two endpoints.  The code fails it: add_link drops only       *)
(* self-links.                                                             *)
(***************************************************************************)
C2_NoBackgroundLink ==
    pc \notin {"get_sector_angles", "classify", "generate_links", "failed"} =>
        \A k \in 1 .. Len(links) : links[k][1] # background /\ links[k][2] # background

(***************************************************************************)
(* C3.  When run_GLOBAL returns, the nucleus of every non-background       *)
(* region r is exactly the set of regions joined to r by a chain of pairs  *)
(* of non-background regions each emitted at least 2 times: a pair        *)
(* emitted once joins nothing, a region in no such pair stays alone.       *)
(***************************************************************************)
StrongPairs ==
    { p \in NonBgRegions \X NonBgRegions : p[1] # p[2] /\ EmitCount(p[1], p[2]) >= 2 }

C3_GlobalStrongComponents ==
    pc = "run_SINGLEBODY" =>
        \A r \in NonBgRegions : NucleiOf(nuclei, r) = { Component(r, StrongPairs) }

\* run_GLOBAL has returned with two regions in one nucleus that are joined only
\* through a third, their own pair having been emitted exactly once.
C3_Witness ==
    /\ pc = "run_SINGLEBODY"
    /\ \E r, s \in NonBgRegions :
          /\ r # s
          /\ EmitCount(r, s) = 1
          /\ NucleiOf(nuclei, r) = NucleiOf(nuclei, s)

(***************************************************************************)
(* C4.  The partition run_SINGLEBODY returns is the GLOBAL result with     *)
(* exactly these unions: for every region r that is a singleton nucleus of *)
(* the GLOBAL result and has exactly one adjacent region s (adjacent: some *)
(* link without the background joins them), the nuclei of r and s are      *)
(* united.  Nothing else is merged, and no singleton nucleus whose region  *)
(* has exactly one adjacent region is left.                                *)
(***************************************************************************)
\* What run_GLOBAL returns for the scene and its links.
GlobalResult ==
    GlobalLoop(initialize_nuclei_all_regions(vertices, background),
               CountLinks(links, background, Len(links)))

Adjacent(r) ==
    IF r = background THEN {}
    ELSE { s \in RegionIds \ {background} : EmitCount(r, s) >= 1 }

\* The regions alone in the partition G that have exactly one adjacent region.
LoneWithOneNeighbour(G) ==
    { r \in UNION G : {r} \in G /\ Cardinality(Adjacent(r)) = 1 }

SingleBodyExpected(G) ==
    LET same  == UNION { n \X n : n \in G }
        joins == UNION { { <<r, s>> : s \in Adjacent(r) } : r \in LoneWithOneNeighbour(G) }
        edges == same \cup joins
    IN  { Component(x, edges) : x \in UNION G }

C5_Idempotent ==
    pc = "done" => SingleLoop(GlobalLoop(nuclei, link_counts), link_map) = nuclei

\* The run has ended after at least one GLOBAL merge and one SINGLEBODY merge.
C5_Witness ==
    /\ pc = "done"
    /\ Len(GlobalResult) < Len(initialize_nuclei_all_regions(vertices, background))
    /\ Len(nuclei) < Len(GlobalResult)

(***************************************************************************)
(* C6.  Every vertex whose number of neighbours is neither 2 nor 3 is      *)
(* classified MULTI, gets no three sector angles, and emits no link.  The  *)
(* code fails it: it computes the angles of the first three neighbours.    *)
(***************************************************************************)
C6_ManyNeighboursAreMulti ==
    pc \notin {"get_sector_angles", "classify", "failed"} =>
        \A i \in 1 .. Len(vertices) :
            LET v == vertices[i]
            IN  Len(EveryOther(v.kind_list, 0)) \notin {2, 3} =>
                  /\ classifications[v.id] = "MULTI"
                  /\ Len(angles_map[v.id]) # 3
                  /\ VertexLinks(<< >>, v, classifications, angles_map) = << >>

(***************************************************************************)
(* C7.  The final set of bodies does not depend on the scan order: in      *)
(* whatever order GLOBAL comes to the counted pairs and SINGLEBODY to the  *)
(* nuclei, the run ends with the set of bodies the code's own order gives. *)
(* Checked under SpecAnyOrder.                                             *)
(***************************************************************************)
\* What run_SINGLEBODY returns in the code's order.
CodeOrderResult ==
    SingleLoop(GlobalResult, BuildLinkMap(links, background, Len(links)))

C7_OrderIndependent ==
    pc = "done" => SeqToSet(bodies) = SeqToSet(extract_bodies(CodeOrderResult))

\* A run has ended in which the merges came in an order other than the code's:
\* the list of bodies differs from the code's list.
C7_Witness ==
    /\ pc = "done"
    /\ bodies # extract_bodies(CodeOrderResult)

(***************************************************************************)
(* C8.  Each merge takes exactly one nucleus off the list; the two loops   *)
(* together merge at most N - 1 times, N the number of distinct            *)
(* non-background regions (no merge at all where N = 0); and each loop     *)
(* returns: every step inside a loop lowers a measure that is never        *)
(* negative.                                                               *)
(***************************************************************************)
MergeCount == Len(initialize_nuclei_all_regions(vertices, background)) - Len(nuclei)

InLoop == pc \in {"GLOBAL_loop", "SINGLEBODY_loop"}

\* The longest a for loop of the run can be.
ScanBound ==
    Len(link_counts.keys) + Len(initialize_nuclei_all_regions(vertices, background))

\* Nuclei left, then the pending rescan, then what is left of the running scan.
LoopMeasure(n, c, i) ==
    n * (2 * (ScanBound + 2)) + (IF c THEN ScanBound + 2 ELSE 0) + (ScanBound + 1 - i)

MergeTakesOne ==
    [][(InLoop /\ nuclei' # nuclei) => Len(nuclei') = Len(nuclei) - 1]_vars

\* Every step that stays in a loop lowers the measure, which is never negative;
\* the guards of the loop's steps (idx within the scan, idx past it with or
\* without a merge) leave no state of a loop without a step.
LoopsReturn ==
    /\ [][(InLoop /\ pc' = pc) =>
            LoopMeasure(Len(nuclei'), changed', idx') < LoopMeasure(Len(nuclei), changed, idx)]_vars
    /\ [](InLoop => (idx >= 1 /\ LoopMeasure(Len(nuclei), changed, idx) >= 0))

C8_LoopsTerminate ==
    /\ MergeTakesOne
    /\ [](Merging => MergeCount <= IF Cardinality(NonBgRegions) = 0
                                   THEN 0 ELSE Cardinality(NonBgRegions) - 1)
    /\ LoopsReturn

\* The bound as first stated: at most N - 1 merges for every scene.
C8_AtMostNMinusOne == Merging => MergeCount <= Cardinality(NonBgRegions) - 1

\* The run has ended with every one of three regions merged into one body by
\* N - 1 merges.
C8_Witness ==
    /\ pc = "done"
    /\ Cardinality(NonBgRegions) >= 3
    /\ MergeCount = Cardinality(NonBgRegions) - 1

(***************************************************************************)
(* C9.  The count GLOBAL compares with the threshold for a pair of regions *)
(* is the number of distinct vertices that emitted a link of that pair.    *)
(* The code fails it: a FORK whose first and third sector hold the same    *)
(* region emits the pair twice.                                            *)
(***************************************************************************)
VertexAsserts(v, r, s) ==
    LET ls == VertexLinks(<< >>, v, classifications, angles_map)
    IN  \E k \in 1 .. Len(ls) : ls[k] = <<r, s>> \/ ls[k] = <<s, r>>

C9_CountIsVertices ==
    Merging =>
        \A key \in DOMAIN link_counts.n :
            link_counts.n[key] =
                Cardinality({ i \in 1 .. Len(vertices) :
                                VertexAsserts(vertices[i], key[1], key[2]) })

(***************************************************************************)
(* C10.  Every merge of run_SINGLEBODY joins a nucleus of one region,      *)
(* which has exactly one adjacent region, into a nucleus that holds        *)
(* several regions at that time.  The code fails it: it never looks at the *)
(* size of the neighbour's nucleus.                                        *)
(***************************************************************************)
C10_MergeIntoMulti ==
    (/\ pc = "SINGLEBODY_loop"
     /\ idx <= Len(nuclei)
     /\ SingleIter(nuclei, nuclei[idx], link_map).merged)
    => /\ Cardinality(nuclei[idx]) = 1
       /\ \A r \in nuclei[idx] :
             /\ Cardinality(Adjacent(r)) = 1
             /\ \A s \in Adjacent(r) : \A n \in NucleiOf(nuclei, s) :
                   Cardinality(n) >= 2

====
